---- MODULE Spec2Model ----
(***************************************************************************)
(* Leave tracker: the leave-request lifecycle and the balance ledger of    *)
(* src/app/supabase_client.py, driven by the Slack handlers of             *)
(* src/app/app.py.                                                         *)
(*                                                                         *)
(* The two tables of the store are state; every store call (one SQL        *)
(* statement through the Supabase client) is one atomic step; a handler    *)
(* is a short sequence of such steps, and several handlers run             *)
(* concurrently (slack_bolt runs each event on a worker thread). The daily *)
(* announcement job runs on the scheduler's own thread. A store statement  *)
(* or a Slack post may raise; a statement that raises has stored nothing.  *)
(***************************************************************************)
EXTENDS Integers, Sequences, FiniteSets, Bags, TLC

(***************************************************************************)
(* Bounds of the model.                                                    *)
(***************************************************************************)
\* Slack user ids that send events; ADMIN_USER_ID is one of them.
Users == {"admin", "u1"}
\* Concurrent handler threads.
Handlers == {1, 2}
\* Leave-modal submissions and Approve/Reject button events per run.
MaxEvents == 3
\* Admin-modal submissions per run.
MaxAdjusts == 2
\* Days typed into the admin modal: -MaxDelta .. MaxDelta.
MaxDelta == 1
\* Calendar dates of the date pickers.
Dates == {1, 2}
\* The (start, end) pairs submitted in the lifecycle specification.
LifecycleWindows == {<<1, 2>>}

(***************************************************************************)
(* Program constants.                                                      *)
(***************************************************************************)
ADMIN_USER_ID == "admin"
max_retries == 3
DefaultVacation == 20
DefaultSick == 10
DefaultPersonal == 5
DefaultOther == 3

\* The options of the leave-type select of the modals.
LeaveTypes == {"vacation", "sick", "personal", "other"}
\* What create_leave_request may be handed: it takes any text.
InputLeaveTypes == LeaveTypes \cup {"holiday"}
Reasons == {"trip"}
Deltas == (-MaxDelta) .. MaxDelta
\* /request-leave opens the leave modal for everyone but the admin.
CanOpenLeaveModal(u) == u # ADMIN_USER_ID
Requesters == {u \in Users : CanOpenLeaveModal(u)}
\* Mutant: /admin-update-balance without its admin check.
CanOpenAdminModalAnyone(u) == TRUE

\* /admin-update-balance opens the admin modal for the admin only.
CanOpenAdminModal(u) == u = ADMIN_USER_ID
AdminModalUsers == {u \in Users : CanOpenAdminModal(u)}

\* Python's None, and SQL's NULL in a text column.
None == [none |-> TRUE]
NULL == "null"

Max(a, b) == IF a >= b THEN a ELSE b

VARIABLES
    leave_requests,       \* table leave_requests: sequence of rows, id = position (SERIAL)
    user_leave_balances,  \* table user_leave_balances: set of rows
    now,                  \* datetime.now(): a logical clock, one tick per stamped write
    task,                 \* per handler thread: the handler it runs and its locals
    outbox,               \* Slack messages posted so far: a bag of messages
    events,               \* events handled so far (bounds the run)
    scheduler             \* the BackgroundScheduler thread: date.today(), the
                          \* position of the daily job and its leaves_today

vars == <<leave_requests, user_leave_balances, now, task, outbox, events, scheduler>>

\* The daily job before the 9:00 trigger of the first day.
JobDue == [today |-> 1, pc |-> "due", leaves_today |-> <<>>]

Idle == [kind |-> "idle"]

\* The worker thread that takes the next event: the threads are
\* interchangeable, so the lowest idle one stands for any of them.
IsFree(h) == task[h] = Idle /\ \A g \in Handlers : g < h => task[g] # Idle

user_name(u) == u

Init ==
    /\ leave_requests = <<>>
    /\ user_leave_balances = {}
    /\ now = 1
    /\ task = [h \in Handlers |-> Idle]
    /\ outbox = EmptyBag
    /\ events = 0
    /\ scheduler = JobDue

(***************************************************************************)
(* Leave Request Store                                                     *)
(***************************************************************************)

\* create_leave_request: the row the insert stores. status is set by the
\* code, id by SERIAL, approved_by and updated_at by the column defaults.
NewLeaveRequest(tbl, user_id, uname, start_date, end_date, reason, leave_type, t) ==
    [id |-> Len(tbl) + 1,
     user_id |-> user_id,
     user_name |-> uname,
     start_date |-> start_date,
     end_date |-> end_date,
     reason |-> reason,
     leave_type |-> leave_type,
     status |-> "pending",
     approved_by |-> NULL,
     created_at |-> t,
     updated_at |-> t]

\* Mutant: the update without its .eq('id', request_id) filter.
MatchAllRows(tbl, request_id) == DOMAIN tbl

\* .eq('id', request_id): the rows an update of leave_requests touches.
MatchingRows(tbl, request_id) == {i \in DOMAIN tbl : tbl[i].id = request_id}

\* Mutant: an update that stamps created_at as well as updated_at.
UpdatedRowRestamped(row, status, approved_by, t) ==
    [row EXCEPT !.status = status,
                !.updated_at = t,
                !.created_at = t,
                !.approved_by = IF approved_by # "" THEN approved_by ELSE @]

\* update_leave_request_status: the table after the update. The statement
\* carries no condition on the current status.
UpdatedRow(row, status, approved_by, t) ==
    [row EXCEPT !.status = status,
                !.updated_at = t,
                !.approved_by = IF approved_by # "" THEN approved_by ELSE @]

UpdateLeaveRequests(tbl, request_id, status, approved_by, t) ==
    [i \in DOMAIN tbl |->
        IF i \in MatchingRows(tbl, request_id)
        THEN UpdatedRow(tbl[i], status, approved_by, t)
        ELSE tbl[i]]

\* response.data[0] if response.data else None
FirstUpdated(tbl, request_id, status, approved_by, t) ==
    LET m == MatchingRows(tbl, request_id)
    IN IF m = {} THEN None
       ELSE LET i == CHOOSE j \in m : \A k \in m : j <= k
            IN UpdateLeaveRequests(tbl, request_id, status, approved_by, t)[i]

(***************************************************************************)
(* handle_modal_submission                                                 *)
(***************************************************************************)

\* The view submission arrives and create_leave_request inserts the row.
SubmitCreate(h, u, lt, sd, ed, rs) ==
    /\ IsFree(h)
    /\ events < MaxEvents
    /\ LET row == NewLeaveRequest(leave_requests, u, user_name(u), sd, ed, rs, lt, now)
       IN /\ leave_requests' = Append(leave_requests, row)
          /\ task' = [task EXCEPT ![h] =
                        [kind |-> "submit", pc |-> "respond", user |-> u,
                         leave_type |-> lt, leave_request |-> row]]
    /\ now' = now + 1
    /\ events' = events + 1
    /\ UNCHANGED <<scheduler, user_leave_balances, outbox>>

\* A handler that prompts the admin whatever create_leave_request returned.
SubmitRespondUnchecked(h) ==
    /\ task[h].kind = "submit"
    /\ task[h].pc = "respond"
    /\ outbox' = outbox (+) SetToBag(
         { [channel |-> ADMIN_USER_ID, kind |-> "approval_request",
            request_id |-> IF task[h].leave_request # None
                           THEN task[h].leave_request.id
                           ELSE Len(leave_requests) + 1] })
    /\ task' = [task EXCEPT ![h] = Idle]
    /\ UNCHANGED <<scheduler, leave_requests, user_leave_balances, now, events>>

\* if leave_request: send_approval_request to the admin, confirm to the user.
SubmitRespond(h) ==
    /\ task[h].kind = "submit"
    /\ task[h].pc = "respond"
    /\ outbox' =
         IF task[h].leave_request # None
         THEN outbox (+) SetToBag(
              { [channel |-> ADMIN_USER_ID, kind |-> "approval_request",
                 request_id |-> task[h].leave_request.id],
                [channel |-> task[h].user, kind |-> "submitted",
                 request_id |-> task[h].leave_request.id] })
         ELSE outbox (+) SetToBag({[channel |-> task[h].user, kind |-> "submit_failed",
                                    request_id |-> 0]})
    /\ task' = [task EXCEPT ![h] = Idle]
    /\ UNCHANGED <<scheduler, leave_requests, user_leave_balances, now, events>>

(***************************************************************************)
(* handle_approve_leave / handle_reject_leave                              *)
(***************************************************************************)

\* The request ids a button event may carry: those of the stored requests
\* and one that is not stored.
ButtonValues == 1 .. (Len(leave_requests) + 1)

\* Mutant: an approval that takes the days of the request off the
\* requester's balance.
DecideUpdateDeducting(h, actor, request_id, status) ==
    /\ IsFree(h)
    /\ events < MaxEvents
    /\ request_id \in ButtonValues
    /\ leave_requests' = UpdateLeaveRequests(leave_requests, request_id, status, actor, now)
    /\ task' = [task EXCEPT ![h] =
                  [kind |-> "decide", pc |-> "notify", actor |-> actor,
                   request_id |-> request_id, status |-> status,
                   leave_request |-> FirstUpdated(leave_requests, request_id, status, actor, now)]]
    /\ now' = now + 1
    /\ events' = events + 1
    /\ user_leave_balances' =
         IF status = "approved" /\ request_id \in DOMAIN leave_requests
         THEN LET r == leave_requests[request_id]
              IN {IF b.user_id = r.user_id /\ r.leave_type \in {"vacation", "sick", "personal", "other"}
                  THEN [b EXCEPT ![r.leave_type] = @ - (r.end_date - r.start_date + 1)]
                  ELSE b : b \in user_leave_balances}
         ELSE user_leave_balances
    /\ UNCHANGED <<scheduler, outbox>>

\* The button event arrives and update_leave_request_status runs.
DecideUpdate(h, actor, request_id, status) ==
    /\ IsFree(h)
    /\ events < MaxEvents
    /\ request_id \in ButtonValues
    /\ leave_requests' = UpdateLeaveRequests(leave_requests, request_id, status, actor, now)
    /\ task' = [task EXCEPT ![h] =
                  [kind |-> "decide", pc |-> "notify", actor |-> actor,
                   request_id |-> request_id, status |-> status,
                   leave_request |-> FirstUpdated(leave_requests, request_id, status, actor, now)]]
    /\ now' = now + 1
    /\ events' = events + 1
    /\ UNCHANGED <<scheduler, user_leave_balances, outbox>>

\* Mutant: the notification sent to the user who pressed the button.
DecideNotifyActor(h) ==
    /\ task[h].kind = "decide"
    /\ task[h].pc = "notify"
    /\ outbox' =
         IF task[h].leave_request # None
         THEN outbox (+) SetToBag(
              { [channel |-> task[h].actor, kind |-> task[h].status,
                 request_id |-> task[h].leave_request.id],
                [channel |-> ADMIN_USER_ID, kind |-> "chat_update",
                 request_id |-> task[h].leave_request.id] })
         ELSE outbox
    /\ task' = [task EXCEPT ![h] = Idle]
    /\ UNCHANGED <<scheduler, leave_requests, user_leave_balances, now, events>>

\* if leave_request: send_approval_notification to the requester, then
\* chat_update of the admin's prompt.
DecideNotify(h) ==
    /\ task[h].kind = "decide"
    /\ task[h].pc = "notify"
    /\ outbox' =
         IF task[h].leave_request # None
         THEN outbox (+) SetToBag(
              { [channel |-> task[h].leave_request.user_id, kind |-> task[h].status,
                 request_id |-> task[h].leave_request.id],
                [channel |-> ADMIN_USER_ID, kind |-> "chat_update",
                 request_id |-> task[h].leave_request.id] })
         ELSE outbox
    /\ task' = [task EXCEPT ![h] = Idle]
    /\ UNCHANGED <<scheduler, leave_requests, user_leave_balances, now, events>>

LifecycleNext ==
    \/ \E h \in Handlers, u \in Requesters, lt \in InputLeaveTypes,
          w \in LifecycleWindows, rs \in Reasons :
            SubmitCreate(h, u, lt, w[1], w[2], rs)
    \/ \E h \in Handlers : SubmitRespond(h)
    \/ \E h \in Handlers, actor \in Users, id \in 1 .. (MaxEvents + 1),
          st \in {"approved", "rejected"} :
            DecideUpdate(h, actor, id, st)
    \/ \E h \in Handlers : DecideNotify(h)

SpecLifecycle == Init /\ [][LifecycleNext]_vars

(***************************************************************************)
(* Balance Ledger                                                          *)
(***************************************************************************)

\* get_user_leave_balance: response.data[0] if response.data else None
BalanceRows(tbl, user_id) == {r \in tbl : r.user_id = user_id}

\* Mutant: a read that answers with the column defaults when the user has
\* no row.
get_user_leave_balance_or_defaults(tbl, user_id) ==
    IF BalanceRows(tbl, user_id) = {}
    THEN [user_id |-> user_id, vacation |-> DefaultVacation, sick |-> DefaultSick,
          personal |-> DefaultPersonal, other |-> DefaultOther,
          created_at |-> 0, updated_at |-> 0]
    ELSE CHOOSE r \in BalanceRows(tbl, user_id) : TRUE

get_user_leave_balance(tbl, user_id) ==
    IF BalanceRows(tbl, user_id) = {} THEN None
    ELSE CHOOSE r \in BalanceRows(tbl, user_id) : TRUE

\* Mutant: the update path storing the delta in place of the sum.
NewBalanceOverwrite(current, leave_type, days) == days

\* The update path: new_balance = current.get(leave_type, 0) + days
NewBalance(current, leave_type, days) == current[leave_type] + days

\* Mutant: the insert path without max(0, .).
InsertedBalanceUnclamped(days) == days

\* The insert path: leave_type: max(0, days)
InsertedBalance(days) == Max(0, days)

\* Mutant: a table whose columns carry no defaults.
DefaultBalanceZero(leave_type) == 0

\* The column defaults of user_leave_balances.
DefaultBalance(leave_type) ==
    CASE leave_type = "vacation" -> DefaultVacation
      [] leave_type = "sick" -> DefaultSick
      [] leave_type = "personal" -> DefaultPersonal
      [] leave_type = "other" -> DefaultOther

\* The row the insert path stores: the named column from the code, the
\* other three and updated_at from the column defaults.
NewBalanceRow(user_id, leave_type, days, t) ==
    [user_id |-> user_id,
     vacation |-> IF leave_type = "vacation" THEN InsertedBalance(days) ELSE DefaultBalance("vacation"),
     sick |-> IF leave_type = "sick" THEN InsertedBalance(days) ELSE DefaultBalance("sick"),
     personal |-> IF leave_type = "personal" THEN InsertedBalance(days) ELSE DefaultBalance("personal"),
     other |-> IF leave_type = "other" THEN InsertedBalance(days) ELSE DefaultBalance("other"),
     created_at |-> t,
     updated_at |-> t]

\* Mutant: a user_id column without UNIQUE.
UniqueViolationNever(tbl, user_id) == FALSE

\* user_id TEXT UNIQUE NOT NULL: the insert is refused when a row of the
\* user exists.
UniqueViolation(tbl, user_id) == BalanceRows(tbl, user_id) # {}

\* Mutant: the update without its .eq('user_id', user_id) filter.
UpdateBalancesAllRows(tbl, user_id, leave_type, new_balance, t) ==
    {[r EXCEPT ![leave_type] = new_balance, !.updated_at = t] : r \in tbl}

\* .update({leave_type: new_balance, updated_at: now}).eq('user_id', user_id)
UpdateBalances(tbl, user_id, leave_type, new_balance, t) ==
    {IF r.user_id = user_id
     THEN [r EXCEPT ![leave_type] = new_balance, !.updated_at = t]
     ELSE r : r \in tbl}

\* _update_balance run on its own, nothing else touching the table between
\* its read and its write: the table it leaves.
update_user_leave_balance(tbl, user_id, leave_type, days, t) ==
    LET current == get_user_leave_balance(tbl, user_id)
    IN IF current # None
       THEN UpdateBalances(tbl, user_id, leave_type,
                           NewBalance(current, leave_type, days), t)
       ELSE tbl \cup {NewBalanceRow(user_id, leave_type, days, t)}

(***************************************************************************)
(* handle_admin_modal_submission                                           *)
(***************************************************************************)

\* if result: the confirmation to the admin, else the failure report. The
\* post follows the write in the same step: it touches the outbox only.
AdjustReply(actor, result, target, leave_type, days) ==
    IF result # None
    THEN [channel |-> actor, kind |-> "balance_updated",
          user |-> target, leave_type |-> leave_type, days |-> days]
    ELSE [channel |-> actor, kind |-> "balance_failed"]

(***************************************************************************)
(* execute_with_retry                                                      *)
(***************************************************************************)

\* Mutant: the test for the last attempt off by one.
LastAttemptOffByOne(attempt) == attempt = max_retries

\* if attempt == self.max_retries - 1
LastAttempt(attempt) == attempt = max_retries - 1

\* except Exception as e, around an operation of the handler's task t that
\* starts at position first: raise e on the last attempt (the handler's own
\* except logs it and the handler returns), else sleep and call the
\* operation again.
AfterRaise(t, first) ==
    IF LastAttempt(t.attempt)
    THEN Idle
    ELSE [t EXCEPT !.pc = first, !.attempt = @ + 1]

\* _update_balance raised: the next attempt calls get_user_leave_balance
\* again, whose own attempts start anew.
AfterUpdateBalanceRaise(t) ==
    LET next == AfterRaise(t, "read")
    IN IF next = Idle THEN Idle ELSE [next EXCEPT !.get_attempt = 0]

\* _get_balance raised inside get_user_leave_balance: its own
\* execute_with_retry calls it again, or raises into _update_balance.
AfterGetBalanceRaise(t) ==
    IF LastAttempt(t.get_attempt)
    THEN AfterUpdateBalanceRaise(t)
    ELSE [t EXCEPT !.get_attempt = @ + 1]

\* The view submission arrives; _update_balance reads the current row.
AdjustRead(h, actor, target, lt, days) ==
    /\ IsFree(h)
    /\ events < MaxAdjusts
    /\ task' = [task EXCEPT ![h] =
                  [kind |-> "adjust", pc |-> "write", actor |-> actor,
                   user |-> target, leave_type |-> lt, days |-> days,
                   attempt |-> 0, get_attempt |-> 0,
                   current |-> get_user_leave_balance(user_leave_balances, target)]]
    /\ events' = events + 1
    /\ UNCHANGED <<scheduler, leave_requests, user_leave_balances, now, outbox>>

\* Mutant: the update stored and then reported as raised, so that
\* execute_with_retry runs _update_balance again.
AdjustUpdateRaises(h) ==
    /\ task[h].kind = "adjust"
    /\ task[h].pc = "write"
    /\ task[h].current # None
    /\ LET t == task[h]
       IN user_leave_balances' =
             UpdateBalances(user_leave_balances, t.user, t.leave_type,
                            NewBalance(t.current, t.leave_type, t.days), now)
    /\ task' = [task EXCEPT ![h] = AfterUpdateBalanceRaise(task[h])]
    /\ now' = now + 1
    /\ UNCHANGED <<scheduler, leave_requests, outbox, events>>

\* if current: the update of the row read, then the reply.
AdjustUpdate(h) ==
    /\ task[h].kind = "adjust"
    /\ task[h].pc = "write"
    /\ task[h].current # None
    /\ LET t == task[h]
           tbl == UpdateBalances(user_leave_balances, t.user, t.leave_type,
                                 NewBalance(t.current, t.leave_type, t.days), now)
       IN /\ user_leave_balances' = tbl
          /\ outbox' = outbox (+) SetToBag({AdjustReply(t.actor, get_user_leave_balance(tbl, t.user),
                                                           t.user, t.leave_type, t.days)})
          /\ task' = [task EXCEPT ![h] = Idle]
    /\ now' = now + 1
    /\ UNCHANGED <<scheduler, leave_requests, events>>

\* else: the insert of a new row, then the reply.
AdjustInsert(h) ==
    /\ task[h].kind = "adjust"
    /\ task[h].pc = "write"
    /\ task[h].current = None
    /\ ~UniqueViolation(user_leave_balances, task[h].user)
    /\ LET t == task[h]
           row == NewBalanceRow(t.user, t.leave_type, t.days, now)
       IN /\ user_leave_balances' = user_leave_balances \cup {row}
          /\ outbox' = outbox (+) SetToBag({AdjustReply(t.actor, row, t.user, t.leave_type, t.days)})
          /\ task' = [task EXCEPT ![h] = Idle]
    /\ now' = now + 1
    /\ UNCHANGED <<scheduler, leave_requests, events>>

\* The insert raises: execute_with_retry sleeps and runs _update_balance
\* again, or re-raises on the last attempt and the handler logs the error.
AdjustInsertRefused(h) ==
    /\ task[h].kind = "adjust"
    /\ task[h].pc = "write"
    /\ task[h].current = None
    /\ UniqueViolation(user_leave_balances, task[h].user)
    /\ task' = [task EXCEPT ![h] = AfterUpdateBalanceRaise(task[h])]
    /\ UNCHANGED <<scheduler, leave_requests, user_leave_balances, now, outbox, events>>

\* The next attempt of _update_balance reads the current row again.
AdjustReread(h) ==
    /\ task[h].kind = "adjust"
    /\ task[h].pc = "read"
    /\ task' = [task EXCEPT ![h].pc = "write",
                            ![h].current = get_user_leave_balance(user_leave_balances, task[h].user)]
    /\ UNCHANGED <<scheduler, leave_requests, user_leave_balances, now, outbox, events>>

LedgerNext ==
    \/ \E h \in Handlers, actor \in AdminModalUsers, target \in Users,
          lt \in LeaveTypes, days \in Deltas :
            AdjustRead(h, actor, target, lt, days)
    \/ \E h \in Handlers : AdjustUpdate(h)
    \/ \E h \in Handlers : AdjustInsert(h)
    \/ \E h \in Handlers : AdjustInsertRefused(h)
    \/ \E h \in Handlers : AdjustReread(h)

SpecLedger == Init /\ [][LedgerNext]_vars

\* The ledger started on a store that already holds the row an earlier
\* adjust("u1", "vacation", 20) inserted.
InitSeeded ==
    /\ leave_requests = <<>>
    /\ user_leave_balances = {NewBalanceRow("u1", "vacation", DefaultVacation, 1)}
    /\ now = 2
    /\ task = [h \in Handlers |-> Idle]
    /\ outbox = EmptyBag
    /\ events = 0
    /\ scheduler = JobDue

SpecLedgerSeeded == InitSeeded /\ [][LedgerNext]_vars

(***************************************************************************)
(* Steps of the handlers, as seen from a pair of states.                   *)
(***************************************************************************)

\* Handler h took a button event and ran update_leave_request_status.
DecideStep(h) == task[h] = Idle /\ task'[h].kind = "decide"

\* Handler h finished a decision (notification sent or skipped).
DecideDone(h) == task[h].kind = "decide" /\ task'[h] = Idle

\* Handler h ran the update path of _update_balance.
UpdateStep(h) ==
    /\ task[h].kind = "adjust"
    /\ task[h].pc = "write"
    /\ task[h].current # None
    /\ task'[h] = Idle

\* Handler h ran the insert path of _update_balance and the row was stored.
InsertStep(h) ==
    /\ task[h].kind = "adjust"
    /\ task[h].pc = "write"
    /\ task[h].current = None
    /\ task'[h] = Idle
    /\ BalanceRows(user_leave_balances, task[h].user) = {}
    /\ BalanceRows(user_leave_balances', task[h].user) # {}

\* Decision notifications the requester of request i has received.
Notice(i, outcome) ==
    [channel |-> leave_requests[i].user_id, kind |-> outcome, request_id |-> i]

Notices(i) == CopiesIn(Notice(i, "approved"), outbox) + CopiesIn(Notice(i, "rejected"), outbox)

\* Decisions on request i that updated the row and have not yet notified.
EffectiveDecisions(i) ==
    {h \in Handlers : /\ task[h].kind = "decide"
                      /\ task[h].request_id = i
                      /\ task[h].leave_request # None}

(***************************************************************************)
(* Leave-request lifecycle                                                 *)
(***************************************************************************)

\* C1: a request's status only moves pending -> approved or pending ->
\* rejected; once it is approved or rejected no later decision changes it.
C1_TerminalStatus ==
    [][\A i \in DOMAIN leave_requests :
          /\ leave_requests'[i].status # leave_requests[i].status
                => leave_requests[i].status = "pending"
          /\ leave_requests[i].status # "pending"
                => leave_requests'[i].status = leave_requests[i].status]_vars

\* C2: a decision on a request that is already decided fails (returns no
\* updated record) and leaves its status, approved_by and updated_at as the
\* first decision set them.
C2_SecondDecisionFails ==
    [][\A h \in Handlers :
          (/\ DecideStep(h)
           /\ task'[h].request_id \in DOMAIN leave_requests
           /\ leave_requests[task'[h].request_id].status # "pending")
          => LET i == task'[h].request_id
             IN /\ task'[h].leave_request = None
                /\ leave_requests'[i].status = leave_requests[i].status
                /\ leave_requests'[i].approved_by = leave_requests[i].approved_by
                /\ leave_requests'[i].updated_at = leave_requests[i].updated_at]_vars

\* C3: of the decisions that run concurrently on one request exactly one
\* takes effect, the requester gets one decision notification, and once no
\* decision on the request is in flight the notified outcome is the stored
\* status.
C3_DecisionsSerialized ==
    \A i \in DOMAIN leave_requests :
        /\ Cardinality(EffectiveDecisions(i)) <= 1
        /\ Notices(i) <= 1
        /\ (EffectiveDecisions(i) = {} /\ Notices(i) >= 1)
              => CopiesIn(Notice(i, leave_requests[i].status), outbox) = Notices(i)

\* C6: every stored request has a leave type of the enumeration and was
\* stored pending by create: a leave type outside the enumeration stores no
\* request.
C6_LeaveTypeValidated ==
    /\ \A i \in DOMAIN leave_requests : leave_requests[i].leave_type \in LeaveTypes
    /\ \A h \in Handlers :
          task[h].kind = "submit" =>
              /\ task[h].leave_request # None
              /\ task[h].leave_request.status = "pending"
              /\ task[h].leave_request.leave_type \in LeaveTypes

\* C7: approved_by is unset while the request is pending, is set to the
\* actor of the decision that moves the request out of pending, and keeps
\* that value from then on.
C7_ApprovedByFirstDecider ==
    [][\A i \in DOMAIN leave_requests :
          /\ leave_requests[i].status = "pending"
                => leave_requests[i].approved_by = NULL
          /\ (leave_requests[i].status = "pending" /\ leave_requests'[i].status # "pending")
                => \E h \in Handlers :
                      /\ DecideStep(h)
                      /\ task'[h].request_id = i
                      /\ leave_requests'[i].approved_by = task'[h].actor
          /\ leave_requests[i].status # "pending"
                => leave_requests'[i].approved_by = leave_requests[i].approved_by]_vars

\* C8: a decision on a request id that is not stored returns no record
\* (None), creates and changes no request, and sends no message.
C8_UnknownRequest ==
    [][\A h \in Handlers :
          /\ (DecideStep(h) /\ task'[h].request_id \notin DOMAIN leave_requests)
                => /\ task'[h].leave_request = None
                   /\ leave_requests' = leave_requests
                   /\ outbox' = outbox
          /\ (DecideDone(h) /\ task[h].leave_request = None)
                => /\ leave_requests' = leave_requests
                   /\ outbox' = outbox]_vars

\* C8 witness: with a request stored, a decision on an id that is not
\* stored has run its update and holds no record.
C8_Witness ==
    \E h \in Handlers :
        /\ task[h].kind = "decide"
        /\ task[h].request_id \notin DOMAIN leave_requests
        /\ task[h].leave_request = None
        /\ Len(leave_requests) >= 1

(***************************************************************************)
(* Balance ledger                                                          *)
(***************************************************************************)

BalanceOf(tbl, user_id, leave_type) == get_user_leave_balance(tbl, user_id)[leave_type]

\* The defaults the specification names.
ClaimedDefaults == [vacation |-> 20, sick |-> 10, personal |-> 5, other |-> 3]

\* C4: no balance field of a stored balance record is below zero.
C4_BalancesNonNegative ==
    \A r \in user_leave_balances : \A lt \in LeaveTypes : r[lt] >= 0

\* C5: an adjustment of an existing record adds its delta to the value
\* stored when it writes, so that concurrent adjustments of one user and
\* category all show in the final value.
C5_NoLostUpdate ==
    [][\A h \in Handlers :
          UpdateStep(h) =>
              BalanceOf(user_leave_balances', task[h].user, task[h].leave_type)
                = BalanceOf(user_leave_balances, task[h].user, task[h].leave_type)
                  + task[h].days]_vars

\* C9 (as claimed): the record an adjust creates holds default + delta,
\* floored at 0, in the adjusted category and the defaults in the others.
C9_DefaultPlusDelta ==
    [][\A h \in Handlers :
          InsertStep(h) =>
              /\ BalanceOf(user_leave_balances', task[h].user, task[h].leave_type)
                   = Max(0, ClaimedDefaults[task[h].leave_type] + task[h].days)
              /\ \A lt \in LeaveTypes \ {task[h].leave_type} :
                   BalanceOf(user_leave_balances', task[h].user, lt) = ClaimedDefaults[lt]]_vars

\* C9 (amended): the record an adjust creates holds max(0, delta) in the
\* adjusted category (the delta applied to 0, not to the default) and the
\* defaults 20, 10, 5, 3 in the other categories.
C9_InsertedRecord ==
    [][\A h \in Handlers :
          InsertStep(h) =>
              /\ BalanceOf(user_leave_balances', task[h].user, task[h].leave_type)
                   = Max(0, task[h].days)
              /\ \A lt \in LeaveTypes \ {task[h].leave_type} :
                   BalanceOf(user_leave_balances', task[h].user, lt) = ClaimedDefaults[lt]]_vars

\* C9 witness: an adjust of sick by +1 created a record: sick is 1, not 11,
\* and the other categories hold their defaults.
C9_Witness ==
    \E r \in user_leave_balances :
        /\ r.created_at = r.updated_at
        /\ r.sick = 1 /\ r.vacation = 20 /\ r.personal = 5 /\ r.other = 3
        /\ \E m \in BagToSet(outbox) :
              /\ m.kind = "balance_updated"
              /\ m.user = r.user_id /\ m.leave_type = "sick" /\ m.days = 1

\* C10: an adjust with a negative delta that creates the record stores 0
\* in the adjusted category.
C10_NegativeInsertClamped ==
    [][\A h \in Handlers :
          (InsertStep(h) /\ task[h].days < 0) =>
              BalanceOf(user_leave_balances', task[h].user, task[h].leave_type) = 0]_vars

\* C10 witness: a record created by an adjust of sick with a negative delta
\* holds sick = 0.
C10_Witness ==
    \E r \in user_leave_balances :
        /\ r.created_at = r.updated_at
        /\ r.sick = 0
        /\ \E m \in BagToSet(outbox) :
              /\ m.kind = "balance_updated"
              /\ m.user = r.user_id /\ m.leave_type = "sick" /\ m.days < 0

\* Largest n of the round trips adjust(+n), adjust(-n) examined.
MaxRoundTrip == 3

\* The table after adjust(+n) and then adjust(-n) of one user and category,
\* the second started after the first returned.
RoundTrip(tbl, user_id, leave_type, n, t) ==
    update_user_leave_balance(
        update_user_leave_balance(tbl, user_id, leave_type, n, t),
        user_id, leave_type, 0 - n, t + 1)

\* The balance of a user as the specification reads it: the stored value,
\* or the default of the category when the user has no record.
StatedBalance(tbl, user_id, leave_type) ==
    IF BalanceRows(tbl, user_id) = {}
    THEN ClaimedDefaults[leave_type]
    ELSE BalanceOf(tbl, user_id, leave_type)

\* An adjust whose write follows its read with no other write in between
\* leaves the table update_user_leave_balance computes.
RunsAsComputed ==
    \A h \in Handlers :
        (/\ task[h].kind = "adjust"
         /\ task[h].pc = "write"
         /\ task'[h] = Idle
         /\ user_leave_balances' # user_leave_balances
         /\ task[h].current = get_user_leave_balance(user_leave_balances, task[h].user))
        => user_leave_balances'
             = update_user_leave_balance(user_leave_balances, task[h].user,
                                         task[h].leave_type, task[h].days, now)

\* C11 (as claimed): for every user, with or without a stored record, and
\* every category, adjust(+n) followed by adjust(-n) returns the balance of
\* the category to its value before the two.
C11_RoundTrip ==
    \A u \in Users, lt \in LeaveTypes, n \in 1 .. MaxRoundTrip :
        StatedBalance(RoundTrip(user_leave_balances, u, lt, n, now), u, lt)
          = StatedBalance(user_leave_balances, u, lt)

\* C11 (amended): for every user with a stored record, and every category
\* and starting value, adjust(+n) followed by adjust(-n) returns the
\* balance of the category to its value before the two; for a user with no
\* stored record the two create the record and leave the category at 0,
\* not at its default.
C11_RoundTripStored ==
    /\ [](\A u \in Users, lt \in LeaveTypes, n \in 1 .. MaxRoundTrip :
            LET after == RoundTrip(user_leave_balances, u, lt, n, now)
            IN IF BalanceRows(user_leave_balances, u) # {}
               THEN BalanceOf(after, u, lt) = BalanceOf(user_leave_balances, u, lt)
               ELSE BalanceOf(after, u, lt) = 0)
    /\ [][RunsAsComputed]_vars

\* C11 witness: adjust(+1) and then adjust(-1) of sick ran for a user who
\* had no record: the record was created by the first, updated by the
\* second, and sick is 0 while "admin" still has no record.
C11_Witness ==
    /\ \A h \in Handlers : task[h] = Idle
    /\ \E r \in user_leave_balances :
          /\ r.user_id = "u1"
          /\ r.created_at < r.updated_at
          /\ r.sick = 0
          /\ CopiesIn(AdjustReply(ADMIN_USER_ID, r, "u1", "sick", 1), outbox) = 1
          /\ CopiesIn(AdjustReply(ADMIN_USER_ID, r, "u1", "sick", -1), outbox) = 1
    /\ BalanceRows(user_leave_balances, ADMIN_USER_ID) = {}

(***************************************************************************)
(* Retries                                                                 *)
(***************************************************************************)

\* Handler h ran an insert the table refused: a row of the user exists
\* (user_id is UNIQUE).
RefusedStep(h) ==
    /\ task[h].kind = "adjust"
    /\ task[h].pc = "write"
    /\ task[h].current = None
    /\ UniqueViolation(user_leave_balances, task[h].user)
    /\ task'[h] # task[h]

\* C15: an operation that fails with a logical error, such as the insert
\* of a second row for one user_id, is attempted once: its error ends the
\* operation and no further attempt is made.
C15_LogicalErrorNotRetried ==
    [][\A h \in Handlers : RefusedStep(h) => task'[h] = Idle]_vars

(***************************************************************************)
(* What a decision leaves alone                                            *)
(***************************************************************************)

\* The columns of leave_requests that update_leave_request_status does not
\* name.
KeptColumns ==
    {"id", "user_id", "user_name", "leave_type", "start_date", "end_date",
     "reason", "created_at"}

\* C18: update_leave_request_status changes only status, approved_by and
\* updated_at of the request it names: the other columns of that request
\* and every other request are unchanged, and no step of any operation
\* removes a request.
C18_UpdateTouchesDecisionOnly ==
    [][/\ Len(leave_requests') >= Len(leave_requests)
       /\ \A i \in DOMAIN leave_requests :
             /\ \A c \in KeptColumns : leave_requests'[i][c] = leave_requests[i][c]
             /\ leave_requests'[i] # leave_requests[i]
                   => \E h \in Handlers : DecideStep(h) /\ task'[h].request_id = i]_vars

\* C18 witness: of two stored requests the first was decided (status,
\* approved_by and updated_at changed) and the second is as created.
C18_Witness ==
    /\ Len(leave_requests) = 2
    /\ leave_requests[1].status = "approved"
    /\ leave_requests[1].approved_by = ADMIN_USER_ID
    /\ leave_requests[1].updated_at > leave_requests[2].created_at
    /\ leave_requests[1].created_at = 1
    /\ leave_requests[2].status = "pending"
    /\ leave_requests[2].approved_by = NULL
    /\ leave_requests[2].updated_at = leave_requests[2].created_at

(***************************************************************************)
(* Decision notifications                                                  *)
(***************************************************************************)

DecisionKinds == {"approved", "rejected"}

\* The decision notifications posted in the step.
NewNotices ==
    {m \in BagToSet(outbox') :
        m.kind \in DecisionKinds /\ CopiesIn(m, outbox') > CopiesIn(m, outbox)}

\* C19: a decision notification is posted only by a decision whose status
\* update returned a record; it is addressed to the user_id of the decided
\* request and its outcome is the status that update stored.
C19_NoticeMatchesDecision ==
    [][\A m \in NewNotices :
          \E h \in Handlers :
              /\ DecideDone(h)
              /\ task[h].leave_request # None
              /\ m.request_id = task[h].request_id
              /\ m.channel = leave_requests[task[h].request_id].user_id
              /\ m.kind = task[h].leave_request.status
              /\ CopiesIn(m, outbox') = CopiesIn(m, outbox) + 1]_vars

\* C19 witness: a decision rejected request 1, no decision is in flight and the
\* requester holds the rejection notice and no approval notice.
C19_Witness ==
    /\ Len(leave_requests) >= 1
    /\ leave_requests[1].status = "rejected"
    /\ \A h \in Handlers : task[h] = Idle
    /\ CopiesIn(Notice(1, "rejected"), outbox) = 1
    /\ CopiesIn(Notice(1, "approved"), outbox) = 0

\* The lifecycle run against a store that holds the balance record of the
\* requester.
SpecLifecycleSeeded == InitSeeded /\ [][LifecycleNext]_vars

\* C17: no step of an approval or a rejection creates or modifies a balance
\* record, whatever the leave type of the request.
C17_DecisionKeepsBalances ==
    [][\A h \in Handlers :
          (DecideStep(h) \/ DecideDone(h))
             => user_leave_balances' = user_leave_balances]_vars

\* C17 witness: a vacation request of "u1" over two days is approved, the
\* requester is notified, and the balance record of "u1" still holds
\* vacation = 20 as stored before the request.
C17_Witness ==
    /\ Len(leave_requests) >= 1
    /\ leave_requests[1].status = "approved"
    /\ leave_requests[1].leave_type = "vacation"
    /\ leave_requests[1].user_id = "u1"
    /\ leave_requests[1].end_date > leave_requests[1].start_date
    /\ CopiesIn(Notice(1, "approved"), outbox) = 1
    /\ user_leave_balances = {NewBalanceRow("u1", "vacation", DefaultVacation, 1)}

(***************************************************************************)
(* Slack refusing a post                                                   *)
(***************************************************************************)

\* Mutant: a handler that puts the request back to pending when a post
\* fails.
DecideDeliveryFailsRollback(h, notice_ok, chat_ok) ==
    /\ task[h].kind = "decide"
    /\ task[h].pc = "notify"
    /\ task[h].leave_request # None
    /\ ~(notice_ok /\ chat_ok)
    /\ outbox' = outbox
    /\ leave_requests' = [leave_requests EXCEPT ![task[h].request_id].status = "pending",
                                                ![task[h].request_id].approved_by = NULL]
    /\ task' = [task EXCEPT ![h] = Idle]
    /\ UNCHANGED <<scheduler, user_leave_balances, now, events>>

\* if leave_request: with chat_postMessage or chat_update raising.
\* send_approval_notification logs the error of its post and returns, so
\* chat_update runs next; the error of chat_update is logged by the
\* handler's own except.
DecideDeliveryFails(h, notice_ok, chat_ok) ==
    /\ task[h].kind = "decide"
    /\ task[h].pc = "notify"
    /\ task[h].leave_request # None
    /\ ~(notice_ok /\ chat_ok)
    /\ outbox' = outbox
         (+) (IF notice_ok
              THEN SetToBag({[channel |-> task[h].leave_request.user_id,
                              kind |-> task[h].status,
                              request_id |-> task[h].leave_request.id]})
              ELSE EmptyBag)
         (+) (IF chat_ok
              THEN SetToBag({[channel |-> ADMIN_USER_ID, kind |-> "chat_update",
                              request_id |-> task[h].leave_request.id]})
              ELSE EmptyBag)
    /\ task' = [task EXCEPT ![h] = Idle]
    /\ UNCHANGED <<scheduler, leave_requests, user_leave_balances, now, events>>

NotifyNext ==
    \/ LifecycleNext
    \/ \E h \in Handlers, notice_ok \in BOOLEAN, chat_ok \in BOOLEAN :
          DecideDeliveryFails(h, notice_ok, chat_ok)

SpecNotify == Init /\ [][NotifyNext]_vars

\* Handler h finished a decision whose update returned a record without
\* the notification reaching the requester.
NoticeLostStep(h) ==
    /\ DecideDone(h)
    /\ task[h].leave_request # None
    /\ NewNotices = {}

\* C20: when the decision notification is not delivered after a status
\* update that returned a record, the step stores nothing: the request
\* keeps the status and approved_by the update gave it, no table changes,
\* and the handler ends as it does after a delivered notification.
C20_NoticeFailureKeepsState ==
    [][\A h \in Handlers :
          NoticeLostStep(h) =>
              /\ leave_requests' = leave_requests
              /\ user_leave_balances' = user_leave_balances
              /\ task'[h] = Idle
              /\ \A g \in Handlers \ {h} : task'[g] = task[g]]_vars

\* C20 witness: request 1 is approved by the admin, its decision has ended,
\* the requester got no notice, and the chat_update that follows the
\* notification in the handler was posted.
C20_Witness ==
    /\ Len(leave_requests) >= 1
    /\ leave_requests[1].status = "approved"
    /\ leave_requests[1].approved_by = ADMIN_USER_ID
    /\ \A h \in Handlers : task[h] = Idle
    /\ Notices(1) = 0
    /\ CopiesIn([channel |-> ADMIN_USER_ID, kind |-> "chat_update", request_id |-> 1], outbox) = 1

(***************************************************************************)
(* handle_admin_update_balance                                             *)
(***************************************************************************)

\* /admin-update-balance: the admin gets the modal (views_open), anyone
\* else the ephemeral refusal, and the handler returns.
AdminCommand(actor) ==
    /\ events < MaxAdjusts
    /\ outbox' = outbox (+) SetToBag(
         {IF CanOpenAdminModal(actor)
          THEN [channel |-> actor, kind |-> "admin_modal"]
          ELSE [channel |-> actor, kind |-> "admins_only"]})
    /\ events' = events + 1
    /\ UNCHANGED <<scheduler, leave_requests, user_leave_balances, now, task>>

AdminNext ==
    \/ LedgerNext
    \/ \E actor \in Users : AdminCommand(actor)

SpecAdmin == Init /\ [][AdminNext]_vars

\* The refusal /admin-update-balance answers a user with.
Refusal(u) == [channel |-> u, kind |-> "admins_only"]

get_todays_leaves_window(tbl, today) ==
    SelectSeq(tbl, LAMBDA r : /\ r.start_date <= today
                              /\ today <= r.end_date
                              /\ r.status = "approved")

\* get_todays_leaves: .eq('start_date', today).eq('status', 'approved'),
\* the rows in the order of their ids.
get_todays_leaves(tbl, today) ==
    SelectSeq(tbl, LAMBDA r : r.start_date = today /\ r.status = "approved")

\* post_leave_announcement(channel="#general", user_name, leave_date)
Announcement(uname, leave_date) ==
    [channel |-> "#general", kind |-> "announcement",
     user_name |-> uname, leave_date |-> leave_date]

\* The 9:00 trigger fires: the job reads date.today() and get_todays_leaves.
DailySelect ==
    /\ scheduler.pc = "due"
    /\ LET leaves == get_todays_leaves(leave_requests, scheduler.today)
       IN scheduler' = [scheduler EXCEPT !.leaves_today = leaves,
                                         !.pc = IF leaves # <<>> THEN "announce" ELSE "done"]
    /\ UNCHANGED <<leave_requests, user_leave_balances, now, task, outbox, events>>

\* for leave in leaves_today: one turn of the loop posts one announcement.
DailyAnnounce ==
    /\ scheduler.pc = "announce"
    /\ outbox' = outbox (+) SetToBag({Announcement(Head(scheduler.leaves_today).user_name,
                                                   scheduler.today)})
    /\ scheduler' = [scheduler EXCEPT !.leaves_today = Tail(@),
                                      !.pc = IF Tail(scheduler.leaves_today) # <<>>
                                             THEN "announce" ELSE "done"]
    /\ UNCHANGED <<leave_requests, user_leave_balances, now, task, events>>

\* Midnight after the job of the day has run.
NextDay ==
    /\ scheduler.pc = "done"
    /\ scheduler.today + 1 \in Dates
    /\ scheduler' = [today |-> scheduler.today + 1, pc |-> "due", leaves_today |-> <<>>]
    /\ UNCHANGED <<leave_requests, user_leave_balances, now, task, outbox, events>>

\* The leave type submitted in the specification of the daily job.
DailyLeaveTypes == {"vacation"}

DailyNext ==
    \/ \E h \in Handlers, u \in Requesters, lt \in DailyLeaveTypes,
          sd \in Dates, ed \in Dates, rs \in Reasons :
            SubmitCreate(h, u, lt, sd, ed, rs)
    \/ \E h \in Handlers : SubmitRespond(h)
    \/ \E h \in Handlers, id \in 1 .. (MaxEvents + 1),
          st \in {"approved", "rejected"} :
            DecideUpdate(h, ADMIN_USER_ID, id, st)
    \/ \E h \in Handlers : DecideNotify(h)
    \/ DailySelect
    \/ DailyAnnounce
    \/ NextDay

SpecDaily == Init /\ [][DailyNext]_vars

\* The rows of the sequence res.
Rows(res) == {res[k] : k \in DOMAIN res}

\* res holds, once each, the stored requests that are approved and start on
\* date d, and nothing else; an approved request that started before d and
\* ends on or after d is not in it.
SelectsStartingOn(res, d) ==
    /\ \A k \in DOMAIN res :
          /\ res[k].id \in DOMAIN leave_requests
          /\ res[k] = leave_requests[res[k].id]
          /\ res[k].status = "approved"
          /\ res[k].start_date = d
    /\ \A k, l \in DOMAIN res : res[k].id = res[l].id => k = l
    /\ \A i \in DOMAIN leave_requests :
          /\ (leave_requests[i].status = "approved" /\ leave_requests[i].start_date = d)
                => leave_requests[i] \in Rows(res)
          /\ leave_requests[i].status \in {"pending", "rejected"}
                => leave_requests[i] \notin Rows(res)
          /\ (leave_requests[i].start_date < d /\ d <= leave_requests[i].end_date)
                => leave_requests[i] \notin Rows(res)

\* C12: in every reachable store state and for every date d,
\* get_todays_leaves on date d returns exactly the approved requests that
\* start on d (no pending or rejected request, and no approved request on a
\* later date of its window), and the daily job works on that result.
C12_SelectsApprovedStartingToday ==
    /\ [](\A d \in Dates : SelectsStartingOn(get_todays_leaves(leave_requests, d), d))
    /\ [][(scheduler.pc = "due" /\ scheduler'.pc # "due")
             => /\ SelectsStartingOn(scheduler'.leaves_today, scheduler.today)
                /\ leave_requests' = leave_requests]_vars

\* C12 witness: request 1 of "u1" runs from date 1 to date 2 and is
\* approved; it was announced on date 1, and the job of date 2 has run and
\* announced nobody.
C12_Witness ==
    /\ Len(leave_requests) >= 1
    /\ leave_requests[1].start_date = 1
    /\ leave_requests[1].end_date = 2
    /\ leave_requests[1].status = "approved"
    /\ scheduler.today = 2
    /\ scheduler.pc = "done"
    /\ CopiesIn(Announcement("u1", 1), outbox) = 1
    /\ CopiesIn(Announcement("u1", 2), outbox) = 0

(***************************************************************************)
(* The store failing: a statement that raises has stored nothing           *)
(***************************************************************************)

\* The leave-modal submission arrives; create_leave_request is about to
\* run its insert.
SubmitArrive(h, u, lt, sd, ed, rs) ==
    /\ IsFree(h)
    /\ events < MaxEvents
    /\ task' = [task EXCEPT ![h] =
                  [kind |-> "submit", pc |-> "create", user |-> u,
                   leave_type |-> lt, start_date |-> sd, end_date |-> ed,
                   reason |-> rs, attempt |-> 0, leave_request |-> None]]
    /\ events' = events + 1
    /\ UNCHANGED <<scheduler, leave_requests, user_leave_balances, now, outbox>>

\* _create succeeds: the row is stored and returned.
SubmitInsert(h) ==
    /\ task[h].kind = "submit"
    /\ task[h].pc = "create"
    /\ LET t == task[h]
           row == NewLeaveRequest(leave_requests, t.user, user_name(t.user),
                                  t.start_date, t.end_date, t.reason, t.leave_type, now)
       IN /\ leave_requests' = Append(leave_requests, row)
          /\ task' = [task EXCEPT ![h].pc = "respond", ![h].leave_request = row]
    /\ now' = now + 1
    /\ UNCHANGED <<scheduler, user_leave_balances, outbox, events>>

\* _create raises: the store was not reached.
SubmitInsertFails(h) ==
    /\ task[h].kind = "submit"
    /\ task[h].pc = "create"
    /\ task' = [task EXCEPT ![h] = AfterRaise(task[h], "create")]
    /\ UNCHANGED <<scheduler, leave_requests, user_leave_balances, now, outbox, events>>

\* The admin-modal submission arrives; _update_balance is about to read.
AdjustArrive(h, actor, target, lt, days) ==
    /\ IsFree(h)
    /\ events < MaxAdjusts
    /\ task' = [task EXCEPT ![h] =
                  [kind |-> "adjust", pc |-> "read", actor |-> actor,
                   user |-> target, leave_type |-> lt, days |-> days,
                   attempt |-> 0, get_attempt |-> 0, current |-> None]]
    /\ events' = events + 1
    /\ UNCHANGED <<scheduler, leave_requests, user_leave_balances, now, outbox>>

\* The select of get_user_leave_balance raises.
AdjustSelectFails(h) ==
    /\ task[h].kind = "adjust"
    /\ task[h].pc = "read"
    /\ task' = [task EXCEPT ![h] = AfterGetBalanceRaise(task[h])]
    /\ UNCHANGED <<scheduler, leave_requests, user_leave_balances, now, outbox, events>>

\* The update or the insert of _update_balance raises: the store was not
\* reached.
AdjustWriteFails(h) ==
    /\ task[h].kind = "adjust"
    /\ task[h].pc = "write"
    /\ task' = [task EXCEPT ![h] = AfterUpdateBalanceRaise(task[h])]
    /\ UNCHANGED <<scheduler, leave_requests, user_leave_balances, now, outbox, events>>

\* What is submitted in the specification of the failing store.
RetryLeaveTypes == {"vacation"}
RetryTargets == {"u1"}

RetryNext ==
    \/ \E h \in Handlers, u \in Requesters, lt \in RetryLeaveTypes,
          w \in LifecycleWindows, rs \in Reasons :
            SubmitArrive(h, u, lt, w[1], w[2], rs)
    \/ \E h \in Handlers : SubmitInsert(h)
    \/ \E h \in Handlers : SubmitInsertFails(h)
    \/ \E h \in Handlers : SubmitRespond(h)
    \/ \E h \in Handlers, actor \in AdminModalUsers, target \in RetryTargets,
          lt \in RetryLeaveTypes, days \in Deltas :
            AdjustArrive(h, actor, target, lt, days)
    \/ \E h \in Handlers : AdjustReread(h)
    \/ \E h \in Handlers : AdjustSelectFails(h)
    \/ \E h \in Handlers : AdjustUpdate(h)
    \/ \E h \in Handlers : AdjustInsert(h)
    \/ \E h \in Handlers : AdjustInsertRefused(h)
    \/ \E h \in Handlers : AdjustWriteFails(h)

SpecRetry == Init /\ [][RetryNext]_vars

\* Handler h is inside an execute_with_retry of create_leave_request or of
\* update_user_leave_balance.
InRetry(h) ==
    \/ task[h].kind = "adjust"
    \/ task[h].kind = "submit" /\ task[h].pc = "create"

\* How far the task t is through its attempts: it grows with every statement
\* that raises and with every read that succeeds.
Rank(t) ==
    IF t.kind = "adjust"
    THEN 2 * (t.attempt * max_retries + t.get_attempt) + (IF t.pc = "write" THEN 1 ELSE 0)
    ELSE 2 * t.attempt * max_retries

MaxRank == 2 * (max_retries * max_retries - 1) + 1

\* The step of h is an attempt that succeeded: the operation returns the
\* result of that attempt and is not called again.
AttemptSucceeds(h) ==
    \/ /\ task[h].kind = "submit"
       /\ Len(leave_requests') = Len(leave_requests) + 1
       /\ task'[h] = [task[h] EXCEPT !.pc = "respond",
                                     !.leave_request = leave_requests'[Len(leave_requests')]]
    \/ /\ task[h].kind = "adjust"
       /\ task[h].pc = "read"
       /\ task'[h] = [task[h] EXCEPT !.pc = "write",
                                     !.current = get_user_leave_balance(user_leave_balances,
                                                                        task[h].user)]
       /\ user_leave_balances' = user_leave_balances
    \/ /\ task[h].kind = "adjust"
       /\ task[h].pc = "write"
       /\ user_leave_balances' # user_leave_balances
       /\ task'[h] = Idle
       /\ \E m \in BagToSet(outbox') :
             /\ m.kind = "balance_updated"
             /\ CopiesIn(m, outbox') = CopiesIn(m, outbox) + 1

\* The step of h is an attempt that raised before the last one: the
\* operation is called again.
AttemptRetried(h) ==
    /\ task'[h] # Idle
    /\ task'[h].kind = task[h].kind
    /\ Rank(task'[h]) > Rank(task[h])
    /\ task'[h].attempt \in {task[h].attempt, task[h].attempt + 1}
    /\ task'[h].pc \in {"read", "create"}
    /\ UNCHANGED <<leave_requests, user_leave_balances, outbox>>

\* The step of h is the last attempt raising: the error reaches the
\* handler, which logs it and posts nothing: no value was returned to it.
AttemptsExhausted(h) ==
    /\ task[h].attempt = max_retries - 1
    /\ task'[h] = Idle
    /\ UNCHANGED <<leave_requests, user_leave_balances, outbox>>

\* The next statement of handler h's operation, returning or raising.
RetryStep(h) ==
    \/ SubmitInsert(h)
    \/ SubmitInsertFails(h)
    \/ AdjustReread(h)
    \/ AdjustSelectFails(h)
    \/ AdjustUpdate(h)
    \/ AdjustInsert(h)
    \/ AdjustInsertRefused(h)
    \/ AdjustWriteFails(h)

\* Every statement sent to the store returns or raises, and every sleep
\* between two attempts ends.
SpecRetryFair == SpecRetry /\ \A h \in Handlers : WF_vars(RetryStep(h))

\* C13: execute_with_retry calls the wrapped operation at most max_retries
\* (3) times and ends: every attempt either succeeds, and then its result
\* is returned with no further attempt, or raises; a raise before the third
\* attempt leads to the next attempt, and the third raise reaches the
\* caller as an error, no value being returned.
C13_RetryBounded ==
    /\ [](\A h \in Handlers :
             InRetry(h) => /\ task[h].attempt \in 0 .. (max_retries - 1)
                           /\ Rank(task[h]) \in 0 .. MaxRank)
    /\ [][\A h \in Handlers :
             (InRetry(h) /\ task'[h] # task[h])
                => \/ AttemptSucceeds(h)
                   \/ AttemptRetried(h)
                   \/ AttemptsExhausted(h)]_vars
    /\ \A h \in Handlers : InRetry(h) ~> ~InRetry(h)

\* C13 witness: create_leave_request has raised twice and is in its third
\* attempt, while the other operation of the run has raised three times and
\* ended with no reply and nothing stored.
C13_Witness ==
    /\ \E h \in Handlers :
          /\ task[h].kind = "submit"
          /\ task[h].pc = "create"
          /\ task[h].attempt = max_retries - 1
    /\ events = 2
    /\ leave_requests = <<>>
    /\ user_leave_balances = {}
    /\ outbox = EmptyBag
    /\ \E h \in Handlers : task[h] = Idle

\* The reply an adjust that returned a record posts to its actor.
UpdatedReply(t) ==
    [channel |-> t.actor, kind |-> "balance_updated",
     user |-> t.user, leave_type |-> t.leave_type, days |-> t.days]

\* The step of h stored the write of its adjust and the adjust returned.
AdjustReturns(h) ==
    /\ task[h].kind = "adjust"
    /\ task[h].pc = "write"
    /\ task'[h] = Idle
    /\ CopiesIn(UpdatedReply(task[h]), outbox') = CopiesIn(UpdatedReply(task[h]), outbox) + 1

\* The step of h stored the insert of its create and the create returned.
CreateReturns(h) ==
    /\ task[h].kind = "submit"
    /\ task[h].pc = "create"
    /\ task'[h].kind = "submit"
    /\ task'[h].pc = "respond"
    /\ task'[h].leave_request # None

\* The rows of the table other than the user's.
OtherRows(tbl, user_id) == {r \in tbl : r.user_id # user_id}

\* C14: with statements that are stored whole or raise without effect, an
\* adjust that returns has written once: the value its last attempt read
\* plus its delta (the stored value plus the delta when nothing else wrote
\* in between), or one new record; a create that returns has inserted one
\* request; and every other step of an operation, its raising attempts and
\* the raise that ends it included, stores nothing.
C14_RetriesApplyOnce ==
    [][\A h \in Handlers :
          (InRetry(h) /\ task'[h] # task[h])
             => /\ AdjustReturns(h)
                   => /\ leave_requests' = leave_requests
                      /\ OtherRows(user_leave_balances', task[h].user)
                           = OtherRows(user_leave_balances, task[h].user)
                      /\ Cardinality(BalanceRows(user_leave_balances', task[h].user)) = 1
                      /\ task[h].current # None
                           => /\ BalanceOf(user_leave_balances', task[h].user, task[h].leave_type)
                                   = task[h].current[task[h].leave_type] + task[h].days
                              /\ task[h].current = get_user_leave_balance(user_leave_balances,
                                                                          task[h].user)
                                   => BalanceOf(user_leave_balances', task[h].user,
                                                task[h].leave_type)
                                        = BalanceOf(user_leave_balances, task[h].user,
                                                    task[h].leave_type) + task[h].days
                      /\ task[h].current = None
                           => /\ BalanceRows(user_leave_balances, task[h].user) = {}
                              /\ BalanceOf(user_leave_balances', task[h].user, task[h].leave_type)
                                   = Max(0, task[h].days)
                /\ CreateReturns(h)
                   => /\ user_leave_balances' = user_leave_balances
                      /\ Len(leave_requests') = Len(leave_requests) + 1
                      /\ SubSeq(leave_requests', 1, Len(leave_requests)) = leave_requests
                      /\ leave_requests'[Len(leave_requests')] = task'[h].leave_request
                /\ ~(AdjustReturns(h) \/ CreateReturns(h))
                   => /\ user_leave_balances' = user_leave_balances
                      /\ leave_requests' = leave_requests]_vars

\* C14 witness: of the two operations of the run, the adjust of "u1" by +1
\* returned and its record holds vacation = 1 (the delta once), and the
\* other raised three times and ended with nothing stored and no reply.
C14_Witness ==
    /\ events = 2
    /\ \A h \in Handlers : task[h] = Idle
    /\ leave_requests = <<>>
    /\ user_leave_balances = {NewBalanceRow("u1", "vacation", 1, 1)}
    /\ outbox = SetToBag({[channel |-> ADMIN_USER_ID, kind |-> "balance_updated",
                           user |-> "u1", leave_type |-> "vacation", days |-> 1]})

(***************************************************************************)
(* One record per user                                                     *)
(***************************************************************************)

\* C23: the table holds at most one balance record per user_id, also when
\* two adjusts of one user who had no record both read "no record" before
\* either inserts.
C23_OneRecordPerUser ==
    \A u \in Users : Cardinality(BalanceRows(user_leave_balances, u)) <= 1

\* C23 witness: two adjusts of "u1" both read no record; one has inserted
\* and returned, the insert of the other was refused and it waits for its
\* second attempt, and "u1" has one record.
C23_Witness ==
    /\ Cardinality(BalanceRows(user_leave_balances, "u1")) = 1
    /\ \E h \in Handlers :
          /\ task[h].kind = "adjust"
          /\ task[h].user = "u1"
          /\ task[h].current = None
          /\ task[h].pc = "read"
          /\ task[h].attempt = 1
    /\ BagCardinality(outbox) = 1

(***************************************************************************)
(* Adjustments of different users                                          *)
(***************************************************************************)

\* A store that holds a record of each user, as earlier adjusts of
\* vacation by 20 inserted them.
SeededTable ==
    {NewBalanceRow("u1", "vacation", DefaultVacation, 1),
     NewBalanceRow(ADMIN_USER_ID, "vacation", DefaultVacation, 2)}

InitBothSeeded ==
    /\ leave_requests = <<>>
    /\ user_leave_balances = SeededTable
    /\ now = 3
    /\ task = [h \in Handlers |-> Idle]
    /\ outbox = EmptyBag
    /\ events = 0
    /\ scheduler = JobDue

\* With a record of every user stored, every adjust takes the update path.
UpdatePathNext ==
    \/ \E h \in Handlers, actor \in AdminModalUsers, target \in Users,
          lt \in LeaveTypes, days \in Deltas :
            AdjustRead(h, actor, target, lt, days)
    \/ \E h \in Handlers : AdjustUpdate(h)

SpecLedgerBothSeeded == InitBothSeeded /\ [][UpdatePathNext]_vars

\* The balances of a table, its time stamps left out.
Balances(tbl) ==
    {[user_id |-> r.user_id, vacation |-> r.vacation, sick |-> r.sick,
      personal |-> r.personal, other |-> r.other] : r \in tbl}

\* The table after the adjust reply m names has run on tbl on its own.
AfterReply(tbl, m) == update_user_leave_balance(tbl, m.user, m.leave_type, m.days, 0)

\* C24: an adjust of an existing record leaves the records of the other
\* users and the other three categories of its user unchanged; and two
\* adjusts of different users, however their steps interleave, end with the
\* balances that running them one after the other gives, in either order.
C24_DifferentUsersIndependent ==
    /\ [](\A m1, m2 \in BagToSet(outbox) :
            (/\ events = 2
             /\ \A h \in Handlers : task[h] = Idle
             /\ m1.kind = "balance_updated" /\ m2.kind = "balance_updated"
             /\ m1.user # m2.user)
            => /\ Balances(user_leave_balances)
                    = Balances(AfterReply(AfterReply(SeededTable, m1), m2))
               /\ Balances(user_leave_balances)
                    = Balances(AfterReply(AfterReply(SeededTable, m2), m1)))
    /\ [][\A h \in Handlers :
             UpdateStep(h) =>
                /\ OtherRows(user_leave_balances', task[h].user)
                     = OtherRows(user_leave_balances, task[h].user)
                /\ \A lt \in LeaveTypes \ {task[h].leave_type} :
                      BalanceOf(user_leave_balances', task[h].user, lt)
                        = BalanceOf(user_leave_balances, task[h].user, lt)]_vars

\* C24 witness: adjusts of vacation of "u1" by -1 and of sick of the admin
\* by +1 have both returned: "u1" holds 19 and 10, the admin 20 and 11.
C24_Witness ==
    /\ events = 2
    /\ \A h \in Handlers : task[h] = Idle
    /\ BalanceOf(user_leave_balances, "u1", "vacation") = DefaultVacation - 1
    /\ BalanceOf(user_leave_balances, "u1", "sick") = DefaultSick
    /\ BalanceOf(user_leave_balances, ADMIN_USER_ID, "vacation") = DefaultVacation
    /\ BalanceOf(user_leave_balances, ADMIN_USER_ID, "sick") = DefaultSick + 1
    /\ BagCardinality(outbox) = 2

(***************************************************************************)
(* handle_leave_balance                                                    *)
(***************************************************************************)

\* The ephemeral answer of /leave-balance: the four balances of the record
\* read, or "No leave balance found" when the read returned None.
BalanceAnswer(u, balance) ==
    IF balance # None
    THEN [channel |-> u, kind |-> "balance", vacation |-> balance.vacation,
          sick |-> balance.sick, personal |-> balance.personal, other |-> balance.other]
    ELSE [channel |-> u, kind |-> "no_balance"]

\* /leave-balance: get_user_leave_balance, then the answer to the user.
BalanceQuery(u) ==
    /\ events < MaxAdjusts
    /\ outbox' = outbox (+) SetToBag(
         {BalanceAnswer(u, get_user_leave_balance(user_leave_balances, u))})
    /\ events' = events + 1
    /\ UNCHANGED <<scheduler, leave_requests, user_leave_balances, now, task>>

BalanceNext ==
    \/ LedgerNext
    \/ \E u \in Users : BalanceQuery(u)

SpecBalance == Init /\ [][BalanceNext]_vars

\* The answers to /leave-balance of user u posted in the step.
NewAnswers(u) ==
    {m \in BagToSet(outbox') :
        /\ m.kind \in {"balance", "no_balance"}
        /\ m.channel = u
        /\ CopiesIn(m, outbox') > CopiesIn(m, outbox)}

\* The answer that shows the defaults the specification names.
DefaultsAnswer(u) ==
    [channel |-> u, kind |-> "balance", vacation |-> ClaimedDefaults.vacation,
     sick |-> ClaimedDefaults.sick, personal |-> ClaimedDefaults.personal,
     other |-> ClaimedDefaults.other]

\* C21 (as claimed): a balance read for a user with no stored record
\* answers with the defaults 20, 10, 5, 3, and no read writes: the stored
\* records are the same before and after it.
C21_AbsentReadsDefaults ==
    [][\A u \in Users :
          NewAnswers(u) # {} =>
              /\ user_leave_balances' = user_leave_balances
              /\ BalanceRows(user_leave_balances, u) = {}
                    => NewAnswers(u) = {DefaultsAnswer(u)}]_vars

\* C21 (amended): a balance read for a user with no stored record returns
\* no record (None) and /leave-balance answers "No leave balance found"; a
\* read for a user with a record answers with the stored values; and no
\* read writes: the stored records are the same before and after it.
C21_AbsentReadsNone ==
    /\ [](\A u \in Users :
            BalanceRows(user_leave_balances, u) = {}
               => get_user_leave_balance(user_leave_balances, u) = None)
    /\ [][\A u \in Users :
             NewAnswers(u) # {} =>
                 /\ user_leave_balances' = user_leave_balances
                 /\ leave_requests' = leave_requests
                 /\ BalanceRows(user_leave_balances, u) = {}
                       => NewAnswers(u) = {[channel |-> u, kind |-> "no_balance"]}
                 /\ BalanceRows(user_leave_balances, u) # {}
                       => \A m \in NewAnswers(u) :
                             /\ m.kind = "balance"
                             /\ \A lt \in LeaveTypes :
                                   m[lt] = BalanceOf(user_leave_balances, u, lt)]_vars

\* C21 witness: "u1" asked for the balance with no record stored and got
\* "No leave balance found"; the admin's record, stored by an adjust, was
\* not touched and no record of "u1" was created.
C21_Witness ==
    /\ CopiesIn([channel |-> "u1", kind |-> "no_balance"], outbox) = 1
    /\ BalanceRows(user_leave_balances, "u1") = {}
    /\ \E r \in user_leave_balances :
          r.user_id = ADMIN_USER_ID /\ r.created_at = r.updated_at
    /\ events = 2

(***************************************************************************)
(* handle_leave_history                                                    *)
(***************************************************************************)

\* Users who ask for their history: "u2" has a request stored from the
\* start.
HistoryUsers == {"u1", "u2"}
\* for req in leave_requests[:10]
HistoryShown == 10

\* Mutant: the history ordered by created_at without desc=True.
RECURSIVE OrderByCreatedAtAsc(_)
OrderByCreatedAtAsc(rows) ==
    IF rows = {} THEN <<>>
    ELSE LET first == CHOOSE r \in rows : \A q \in rows : r.created_at <= q.created_at
         IN <<first>> \o OrderByCreatedAtAsc(rows \ {first})

\* .order('created_at', desc=True)
RECURSIVE OrderByCreatedAtDesc(_)
OrderByCreatedAtDesc(rows) ==
    IF rows = {} THEN <<>>
    ELSE LET first == CHOOSE r \in rows : \A q \in rows : q.created_at <= r.created_at
         IN <<first>> \o OrderByCreatedAtDesc(rows \ {first})

\* get_user_leave_requests: .eq('user_id', user_id).order('created_at', desc=True)
get_user_leave_requests(tbl, user_id) ==
    OrderByCreatedAtDesc({tbl[i] : i \in {j \in DOMAIN tbl : tbl[j].user_id = user_id}})

\* The ephemeral answer of /leave-history: a line per request, ten at most.
HistoryAnswer(u, requests) ==
    IF requests # <<>>
    THEN [channel |-> u, kind |-> "history",
          lines |-> [k \in 1 .. (IF Len(requests) < HistoryShown THEN Len(requests)
                                 ELSE HistoryShown) |->
                        [id |-> requests[k].id, status |-> requests[k].status]]]
    ELSE [channel |-> u, kind |-> "no_history"]

\* /leave-history: get_user_leave_requests, then the answer to the user.
HistoryQuery(u) ==
    /\ events < MaxEvents
    /\ outbox' = outbox (+) SetToBag({HistoryAnswer(u, get_user_leave_requests(leave_requests, u))})
    /\ events' = events + 1
    /\ UNCHANGED <<scheduler, leave_requests, user_leave_balances, now, task>>

\* The store holds the request an earlier submission of "u2" created.
InitHistory ==
    /\ leave_requests = <<NewLeaveRequest(<<>>, "u2", user_name("u2"), 1, 2, "trip", "sick", 1)>>
    /\ user_leave_balances = {}
    /\ now = 2
    /\ task = [h \in Handlers |-> Idle]
    /\ outbox = EmptyBag
    /\ events = 0
    /\ scheduler = JobDue

HistoryNext ==
    \/ \E h \in Handlers, u \in Requesters, lt \in DailyLeaveTypes,
          w \in LifecycleWindows, rs \in Reasons :
            SubmitCreate(h, u, lt, w[1], w[2], rs)
    \/ \E h \in Handlers : SubmitRespond(h)
    \/ \E h \in Handlers, id \in 1 .. (MaxEvents + 1),
          st \in {"approved", "rejected"} :
            DecideUpdate(h, ADMIN_USER_ID, id, st)
    \/ \E h \in Handlers : DecideNotify(h)
    \/ \E u \in HistoryUsers : HistoryQuery(u)

SpecHistory == InitHistory /\ [][HistoryNext]_vars

\* res holds, once each, the stored requests of user u, whatever their
\* status, and nothing else, a request created later before one created
\* earlier.
ListsRequestsOf(res, u) ==
    /\ \A k \in DOMAIN res :
          /\ res[k].id \in DOMAIN leave_requests
          /\ res[k] = leave_requests[res[k].id]
          /\ res[k].user_id = u
    /\ \A i \in DOMAIN leave_requests :
          leave_requests[i].user_id = u
             => Cardinality({k \in DOMAIN res : res[k] = leave_requests[i]}) = 1
    /\ \A k, l \in DOMAIN res : k < l => res[k].created_at > res[l].created_at

\* C22: in every reachable store state and for every user u,
\* get_user_leave_requests returns exactly the stored requests of u of
\* every status, the most recently created first, and /leave-history
\* answers with the first ten of that list.
C22_HistoryNewestFirst ==
    /\ [](\A u \in HistoryUsers :
            ListsRequestsOf(get_user_leave_requests(leave_requests, u), u))
    /\ [][\A u \in HistoryUsers, m \in BagToSet(outbox') :
             (/\ m.kind = "history"
              /\ m.channel = u
              /\ CopiesIn(m, outbox') > CopiesIn(m, outbox))
             => /\ leave_requests' = leave_requests
                /\ Len(m.lines) = Cardinality({i \in DOMAIN leave_requests :
                                                 leave_requests[i].user_id = u})
                /\ \A k \in DOMAIN m.lines :
                      /\ leave_requests[m.lines[k].id].user_id = u
                      /\ m.lines[k].status = leave_requests[m.lines[k].id].status
                      /\ \A l \in DOMAIN m.lines :
                            k < l => leave_requests[m.lines[k].id].created_at
                                       > leave_requests[m.lines[l].id].created_at]_vars

\* C22 witness: request 1 is of "u2"; "u1" created requests 2 and 3, both
\* pending, and the history "u1" was answered with lists request 3 and
\* then request 2.
C22_Witness ==
    /\ Len(leave_requests) = 3
    /\ leave_requests[1].user_id = "u2"
    /\ \E m \in BagToSet(outbox) :
          /\ m.kind = "history"
          /\ m.channel = "u1"
          /\ Len(m.lines) = 2
          /\ m.lines[1].id = 3
          /\ m.lines[2].id = 2

(***************************************************************************)
(* The approval prompt of a submission                                     *)
(***************************************************************************)

\* _create: the insert answers without a row (response.data is empty), so
\* create_leave_request returns None; no row was stored.
SubmitInsertEmpty(h) ==
    /\ task[h].kind = "submit"
    /\ task[h].pc = "create"
    /\ task' = [task EXCEPT ![h].pc = "respond"]
    /\ UNCHANGED <<scheduler, leave_requests, user_leave_balances, now, outbox, events>>

SubmitNext ==
    \/ \E h \in Handlers, u \in Requesters, lt \in RetryLeaveTypes,
          w \in LifecycleWindows, rs \in Reasons :
            SubmitArrive(h, u, lt, w[1], w[2], rs)
    \/ \E h \in Handlers : SubmitInsert(h)
    \/ \E h \in Handlers : SubmitInsertFails(h)
    \/ \E h \in Handlers : SubmitInsertEmpty(h)
    \/ \E h \in Handlers : SubmitRespond(h)

SpecSubmit == Init /\ [][SubmitNext]_vars

\* The approval prompts posted so far.
Prompts == {m \in BagToSet(outbox) : m.kind = "approval_request"}

\* The approval prompts this step posts.
NewPrompts ==
    {m \in BagToSet(outbox') :
        m.kind = "approval_request" /\ CopiesIn(m, outbox') > CopiesIn(m, outbox)}

\* Handler h holds the record create_leave_request returned to it: a stored
\* row, pending, with the id m carries.
ReturnedStoredPending(h, m) ==
    /\ task[h].kind = "submit"
    /\ task[h].pc = "respond"
    /\ task[h].leave_request # None
    /\ task[h].leave_request.status = "pending"
    /\ task[h].leave_request.id = m.request_id
    /\ \E i \in DOMAIN leave_requests : leave_requests[i] = task[h].leave_request

\* Handler h's submission ends without a record: create_leave_request
\* returned None, or its last attempt raised.
EndsWithoutRecord(h) ==
    /\ task[h].kind = "submit"
    /\ task[h].leave_request = None
    /\ task'[h] = Idle

\* C25: the admin is prompted only by a handler to which
\* create_leave_request has returned a stored record with status pending,
\* and the prompt carries that record's id; a submission that ends with no
\* record returned (None, or the last attempt raising) prompts nobody; every
\* request id the admin was sent is the id of a stored request, sent once.
C25_PromptOnlyForStoredRequest ==
    /\ [](\A m \in Prompts :
            /\ m.channel = ADMIN_USER_ID
            /\ CopiesIn(m, outbox) = 1
            /\ \E i \in DOMAIN leave_requests : leave_requests[i].id = m.request_id)
    /\ [][ /\ \A m \in NewPrompts : \E h \in Handlers : ReturnedStoredPending(h, m)
           /\ \A h \in Handlers : EndsWithoutRecord(h) => NewPrompts = {} ]_vars

\* C25 witness: three submissions are over. One was stored and the admin
\* holds the prompt for it; one got None from create_leave_request and was
\* told so; the third raised max_retries times and left no message.
C25_Witness ==
    /\ events = 3
    /\ \A h \in Handlers : task[h] = Idle
    /\ Len(leave_requests) = 1
    /\ Prompts = {[channel |-> ADMIN_USER_ID, kind |-> "approval_request", request_id |-> 1]}
    /\ BagCardinality(outbox) = 3
    /\ \E m \in BagToSet(outbox) : m.kind = "submit_failed"

(***************************************************************************)
(* The announcements of the daily job                                      *)
(***************************************************************************)

\* Mutant: a failed post that ends the run.
DailyAnnounceFailsAborting ==
    /\ scheduler.pc = "announce"
    /\ scheduler' = [scheduler EXCEPT !.leaves_today = <<>>, !.pc = "done"]
    /\ UNCHANGED <<leave_requests, user_leave_balances, now, task, outbox, events>>

\* chat_postMessage raises inside post_leave_announcement, which logs the
\* error and returns: nothing is posted and the loop goes on.
DailyAnnounceFails ==
    /\ scheduler.pc = "announce"
    /\ scheduler' = [scheduler EXCEPT !.leaves_today = Tail(@),
                                      !.pc = IF Tail(scheduler.leaves_today) # <<>>
                                             THEN "announce" ELSE "done"]
    /\ UNCHANGED <<leave_requests, user_leave_balances, now, task, outbox, events>>

\* The store holds a request of the admin for date 1, approved before the
\* job of date 1 runs.
InitAnnounce ==
    /\ leave_requests =
         <<UpdatedRow(NewLeaveRequest(<<>>, ADMIN_USER_ID, user_name(ADMIN_USER_ID),
                                      1, 1, "trip", "vacation", 1),
                      "approved", ADMIN_USER_ID, 2)>>
    /\ user_leave_balances = {}
    /\ now = 3
    /\ task = [h \in Handlers |-> Idle]
    /\ outbox = EmptyBag
    /\ events = 0
    /\ scheduler = JobDue

AnnounceNext ==
    \/ DailyNext
    \/ DailyAnnounceFails

SpecAnnounce == InitAnnounce /\ [][AnnounceNext]_vars

\* The stored requests of the user named uname that start on date d.
StartingOn(uname, d) ==
    {i \in DOMAIN leave_requests :
        leave_requests[i].user_name = uname /\ leave_requests[i].start_date = d}

\* The requests of the user named uname that the run of date d has yet to
\* announce.
YetToAnnounce(uname, d) ==
    IF d = scheduler.today
    THEN Cardinality({k \in DOMAIN scheduler.leaves_today :
                         scheduler.leaves_today[k].user_name = uname})
    ELSE 0

\* The announcements posted so far.
Announcements == {m \in BagToSet(outbox) : m.kind = "announcement"}

\* This step starts the run of the day: the job takes the result of the
\* selector and has posted nothing yet.
RunStarts == scheduler.pc = "due" /\ scheduler'.pc # "due"

\* This step is one turn of the loop over leaves_today.
LoopTurn == scheduler.pc = "announce" /\ scheduler' # scheduler

\* C26: the job runs once per day. A run takes the requests the selector
\* returns (approved at that moment, starting that day) and handles each of
\* them in one turn of its loop, which posts at most one announcement, for
\* that request and that day, and goes on with the remaining requests
\* whether the post succeeded or failed; nothing else posts an
\* announcement. So the announcements for a user and a date, together with
\* those the running job has yet to make, never outnumber the user's stored
\* requests starting on that date, and no date that has not come is
\* announced.
C26_AnnouncedOncePerRequest ==
    /\ [](/\ \A k \in DOMAIN scheduler.leaves_today :
               /\ scheduler.leaves_today[k].status = "approved"
               /\ scheduler.leaves_today[k].start_date = scheduler.today
               /\ \A l \in DOMAIN scheduler.leaves_today :
                     scheduler.leaves_today[k].id = scheduler.leaves_today[l].id => k = l
          /\ (scheduler.pc = "announce") = (scheduler.leaves_today # <<>>)
          /\ \A m \in Announcements :
               /\ m = Announcement(m.user_name, m.leave_date)
               /\ m.leave_date <= scheduler.today
               /\ CopiesIn(m, outbox) + YetToAnnounce(m.user_name, m.leave_date)
                     <= Cardinality(StartingOn(m.user_name, m.leave_date)))
    /\ [][ /\ RunStarts =>
                /\ scheduler'.leaves_today = get_todays_leaves(leave_requests, scheduler.today)
                /\ scheduler'.today = scheduler.today
                /\ outbox' = outbox
           /\ LoopTurn =>
                /\ scheduler'.leaves_today = Tail(scheduler.leaves_today)
                /\ scheduler'.today = scheduler.today
                /\ scheduler'.pc = IF Len(scheduler.leaves_today) > 1 THEN "announce" ELSE "done"
                /\ \/ outbox' = outbox
                   \/ outbox' = outbox (+) SetToBag(
                          {Announcement(Head(scheduler.leaves_today).user_name, scheduler.today)})
           /\ (\E m \in Announcements' : CopiesIn(m, outbox') # CopiesIn(m, outbox))
                => LoopTurn
           /\ scheduler'.today # scheduler.today
                => scheduler.pc = "done" /\ scheduler'.today = scheduler.today + 1
         ]_vars

\* C26 witness: the run of date 1 is over. It took request 1 of the admin
\* and request 2 of "u1", both approved and starting on date 1; the post
\* for request 1 failed and request 2 was announced after it.
C26_Witness ==
    /\ scheduler.today = 1
    /\ scheduler.pc = "done"
    /\ Len(leave_requests) = 2
    /\ \A i \in {1, 2} : leave_requests[i].status = "approved" /\ leave_requests[i].start_date = 1
    /\ leave_requests[1].updated_at = 2
    /\ leave_requests[2].user_id = "u1"
    /\ CopiesIn(Announcement(user_name(ADMIN_USER_ID), 1), outbox) = 0
    /\ CopiesIn(Announcement("u1", 1), outbox) = 1

(***************************************************************************)
(* The whole program: every handler, the daily job, and the store and      *)
(* Slack failing.                                                          *)
(***************************************************************************)

Next ==
    \/ LifecycleNext
    \/ LedgerNext
    \/ NotifyNext
    \/ AdminNext
    \/ DailyNext
    \/ RetryNext
    \/ UpdatePathNext
    \/ BalanceNext
    \/ HistoryNext
    \/ SubmitNext
    \/ AnnounceNext

Spec == Init /\ [][Next]_vars

====
